---- MODULE Spec2Model ----
(***************************************************************************)
(* Task tracker: the Task entity and the three task stores of              *)
(* simple_backend/task_tracker/classes.py (TaskStore in memory,            *)
(* FileTaskStore on a JSON file, RemoteTaskStore on a JSON bin), the HTTP  *)
(* clients and TaskService.create_task_and_enrich.                         *)
(*                                                                         *)
(* Spec runs whole store calls of one caller; SpecTask the setters of a    *)
(* Task; SpecService, SpecRace and SpecEnrichRace the Remote store and the *)
(* service request by request; SpecFileWrite the File store step by step.  *)
(*                                                                         *)
(* Strings are TLA+ strings; an optional value (Python None or a value)    *)
(* is the empty tuple or a one-element tuple.                              *)
(***************************************************************************)
EXTENDS Integers, Sequences, FiniteSets, TLC

VARIABLES
    tracker,   \* which store class the caller talks to
    tasks,     \* TaskStore.tasks: the dict, in insertion order
    next_id,   \* TaskStore.next_id
    file,      \* the JSON document at FileTaskStore.path
    bin,       \* the JSON document held by the remote bin
    last,      \* the call that has just returned: arguments and outcome
    issued,    \* the ids the create calls have returned so far
    freed,     \* id of the maximum-id task when the last call deleted it
    obj,       \* a Task object a caller holds (entity operations)
    obj_err,   \* outcome of the last setter call on obj
    callers,   \* Remote store callers, one request at a time
    writers,   \* File store processes inside an operation, step by step
    tmp,       \* the file at FileTaskStore.path + ".tmp", when it exists
    target     \* the file at FileTaskStore.path while it is written through
               \* a descriptor that is still open

vars == <<tracker, tasks, next_id, file, bin, last, issued, freed, obj,
          obj_err, callers, writers, tmp, target>>

\* The state of the request-level and step-level machines.
aux == <<callers, writers, tmp, target>>

(***************************************************************************)
(* Bounds and constants                                                    *)
(***************************************************************************)
\* Largest id a create call may assign in the model.
MaxId == 2

\* The title limit of Task.rename_title.
MaxTitleLen == 50

None == <<>>
Some(x) == <<x>>

TaskStatus == {"todo", "in_progress", "done"}

\* A value that is not a member of the TaskStatus enum.
BadStatus == "bogus"

RECURSIVE Rep(_, _)
Rep(c, n) == IF n = 0 THEN "" ELSE c \o Rep(c, n - 1)

X50 == Rep("x", MaxTitleLen)
X51 == X50 \o "x"
Pad50 == " " \o X50 \o " "

\* Title arguments the callers pass to the setters and to update.
Titles == {"", " ", " a ", Pad50, X51}

\* Title arguments the callers pass to create.
CreateTitles == {"", " a ", Pad50}

TitleArgs == {None} \cup {Some(t) : t \in Titles}
StatusArgs == {None, Some("done"), Some(BadStatus)}
NotesArgs == {None, Some("n")}
Ids == 1 .. MaxId

(***************************************************************************)
(* str.strip()                                                             *)
(***************************************************************************)
RECURSIVE LStrip(_)
LStrip(s) ==
    IF Len(s) > 0 /\ SubSeq(s, 1, 1) = " "
    THEN LStrip(SubSeq(s, 2, Len(s)))
    ELSE s

RECURSIVE RStrip(_)
RStrip(s) ==
    IF Len(s) > 0 /\ SubSeq(s, Len(s), Len(s)) = " "
    THEN RStrip(SubSeq(s, 1, Len(s) - 1))
    ELSE s

Strip(s) == RStrip(LStrip(s))

(***************************************************************************)
(* Task                                                                    *)
(***************************************************************************)
\* Variant of Task that keeps the title as passed.
Task_unstripped(id, title, status, notes) ==
    [id |-> id, title |-> title, status |-> status, notes |-> notes]

\* Task.__init__: strips the title, validates nothing.
Task(id, title, status, notes) ==
    [id |-> id, title |-> Strip(title), status |-> status, notes |-> notes]

\* Variant of rename_title that rejects a title of exactly MaxTitleLen.
rename_title_off_by_one(task, new_title) ==
    IF Strip(new_title) = "" \/ Len(Strip(new_title)) >= MaxTitleLen
    THEN [err |-> "Validation", task |-> task]
    ELSE [err |-> "", task |-> [task EXCEPT !.title = Strip(new_title)]]

\* Task.rename_title: the task afterwards and whether ValueError was raised.
rename_title(task, new_title) ==
    IF Strip(new_title) = "" \/ Len(Strip(new_title)) > MaxTitleLen
    THEN [err |-> "Validation", task |-> task]
    ELSE [err |-> "", task |-> [task EXCEPT !.title = Strip(new_title)]]

\* Task.change_status
change_status(task, new_status) ==
    IF new_status \notin TaskStatus
    THEN [err |-> "Validation", task |-> task]
    ELSE [err |-> "", task |-> [task EXCEPT !.status = new_status]]

(***************************************************************************)
(* Sequence helpers                                                        *)
(***************************************************************************)
SeqIds(s) == {s[i].id : i \in DOMAIN s}

Max(S) == CHOOSE m \in S : \A x \in S : x <= m

\* list.pop(index) with a 1-based index.
Pop(s, i) == SubSeq(s, 1, i - 1) \o SubSeq(s, i + 1, Len(s))

\* Variant of FirstIndex whose loop leaves the last element selected when
\* no element matches.
FirstIndex_or_last(s, id) ==
    IF \E i \in DOMAIN s : s[i].id = id
    THEN CHOOSE i \in DOMAIN s :
            /\ s[i].id = id
            /\ \A j \in 1 .. (i - 1) : s[j].id # id
    ELSE Len(s)

\* Index of the first element with the given id, 0 when there is none.
FirstIndex(s, id) ==
    IF \E i \in DOMAIN s : s[i].id = id
    THEN CHOOSE i \in DOMAIN s :
            /\ s[i].id = id
            /\ \A j \in 1 .. (i - 1) : s[j].id # id
    ELSE 0

\* Stable insertion of t into a list sorted by id.
RECURSIVE InsertById(_, _)
InsertById(s, t) ==
    IF s = <<>> THEN <<t>>
    ELSE IF s[Len(s)].id <= t.id THEN Append(s, t)
    ELSE Append(InsertById(SubSeq(s, 1, Len(s) - 1), t), s[Len(s)])

\* Variant of SortById that sorts by descending id.
RECURSIVE SortById_descending(_)
SortById_descending(s) ==
    IF s = <<>> THEN <<>>
    ELSE LET rest == SortById_descending(SubSeq(s, 1, Len(s) - 1))
             t == s[Len(s)]
             k == Cardinality({i \in DOMAIN rest : rest[i].id >= t.id})
         IN  SubSeq(rest, 1, k) \o <<t>> \o SubSeq(rest, k + 1, Len(rest))

\* sorted(result, key=lambda t: t.id)
RECURSIVE SortById(_)
SortById(s) ==
    IF s = <<>> THEN <<>>
    ELSE InsertById(SortById(SubSeq(s, 1, Len(s) - 1)), s[Len(s)])

(***************************************************************************)
(* TaskStore: the in-memory store                                          *)
(***************************************************************************)
\* Python truthiness of an optional string argument ("if title:").
Truthy(arg) == arg # None /\ arg[1] # ""

\* TaskStore.get_all
TaskStore_get_all(ts) == ts

\* Variant of TaskStore.create_task that does not advance the counter.
TaskStore_create_task_stale_counter(ts, nid, title, status) ==
    LET task == Task(nid, title, status, None)
    IN  [err |-> "", ret |-> Some(task), tasks |-> Append(ts, task),
         next_id |-> nid]

\* TaskStore.create_task
TaskStore_create_task(ts, nid, title, status) ==
    LET task == Task(nid, title, status, None)
    IN  [err |-> "", ret |-> Some(task), tasks |-> Append(ts, task),
         next_id |-> nid + 1]

\* The guard of the title setter in TaskStore.update_task.
TaskStore_title_given(title) == Truthy(title)

\* TaskStore.update_task: the Task objects are mutated in place, so a
\* setter that succeeded stays applied when a later one raises.
TaskStore_update_task(ts, id, title, status) ==
    LET i == FirstIndex(ts, id)
    IN  IF i = 0
        THEN [err |-> "NotFound", ret |-> None, tasks |-> ts]
        ELSE LET r1 == IF TaskStore_title_given(title)
                       THEN rename_title(ts[i], title[1])
                       ELSE [err |-> "", task |-> ts[i]]
                 r2 == IF r1.err = "" /\ Truthy(status)
                       THEN change_status(r1.task, status[1])
                       ELSE r1
             IN  [err |-> r2.err,
                  ret |-> IF r2.err = "" THEN Some(r2.task) ELSE None,
                  tasks |-> [ts EXCEPT ![i] = r2.task]]

\* TaskStore.delete_task
TaskStore_delete_task(ts, id) ==
    LET i == FirstIndex(ts, id)
    IN  IF i = 0
        THEN [err |-> "NotFound", tasks |-> ts]
        ELSE [err |-> "", tasks |-> Pop(ts, i)]

(***************************************************************************)
(* FileTaskStore: the whole document is read and rewritten by every call   *)
(***************************************************************************)
\* FileTaskStore.get_all: notes are not read, the result is sorted by id.
FileTaskStore_get_all(doc) ==
    SortById([i \in DOMAIN doc.tasks |->
                Task(doc.tasks[i].id, doc.tasks[i].title,
                     doc.tasks[i].status, None)])

\* FileTaskStore.dump_all: the document that replaces the file.
FileTaskStore_dump_all(ts) ==
    [schema_version |-> 1,
     tasks |-> [i \in DOMAIN ts |->
                  [id |-> ts[i].id, title |-> ts[i].title,
                   status |-> ts[i].status]]]

\* Variant of the id computation that counts the tasks.
FileTaskStore_new_id_by_count(ts) == Len(ts) + 1

\* The id FileTaskStore.create_task assigns.
FileTaskStore_new_id(ts) ==
    IF ts = <<>> THEN 1 ELSE Max(SeqIds(ts)) + 1

\* FileTaskStore.create_task
FileTaskStore_create_task(doc, title, status) ==
    LET ts == FileTaskStore_get_all(doc)
        new_task == Task(FileTaskStore_new_id(ts), title, status, None)
    IN  [err |-> "", ret |-> Some(new_task), wrote |-> TRUE,
         file |-> FileTaskStore_dump_all(Append(ts, new_task))]

\* FileTaskStore.update_task
FileTaskStore_update_task(doc, id, title, status) ==
    LET ts == FileTaskStore_get_all(doc)
        i == FirstIndex(ts, id)
    IN  IF i = 0
        THEN [err |-> "NotFound", ret |-> None, wrote |-> FALSE, file |-> doc]
        ELSE LET r1 == IF title # None
                       THEN rename_title(ts[i], title[1])
                       ELSE [err |-> "", task |-> ts[i]]
                 r2 == IF r1.err = "" /\ status # None
                       THEN change_status(r1.task, status[1])
                       ELSE r1
             IN  IF r2.err # ""
                 THEN [err |-> r2.err, ret |-> None, wrote |-> FALSE,
                       file |-> doc]
                 ELSE [err |-> "", ret |-> Some(r2.task), wrote |-> TRUE,
                       file |-> FileTaskStore_dump_all(
                                    [ts EXCEPT ![i] = r2.task])]

\* The loop of FileTaskStore.delete_task: enumerate(tasks) keeps advancing
\* over the list it pops from; idx is the 1-based position of the iterator.
RECURSIVE FileTaskStore_delete_loop(_, _, _)
FileTaskStore_delete_loop(ts, idx, id) ==
    IF idx > Len(ts) THEN ts
    ELSE IF ts[idx].id = id
         THEN FileTaskStore_delete_loop(Pop(ts, idx), idx + 1, id)
         ELSE FileTaskStore_delete_loop(ts, idx + 1, id)

\* FileTaskStore.delete_task: never raises, always rewrites the file.
FileTaskStore_delete_task(doc, id) ==
    LET ts == FileTaskStore_get_all(doc)
    IN  [err |-> "", wrote |-> TRUE,
         file |-> FileTaskStore_dump_all(FileTaskStore_delete_loop(ts, 1, id))]

(***************************************************************************)
(* RemoteTaskStore: GET the whole document, change it, PUT it back         *)
(***************************************************************************)
\* item.get("notes")
ItemNotes(item) ==
    IF "notes" \in DOMAIN item THEN Some(item.notes) ELSE None

\* RemoteTaskStore.get_all: document order, notes included.
RemoteTaskStore_get_all(payload) ==
    [i \in DOMAIN payload.tasks |->
        Task(payload.tasks[i].id, payload.tasks[i].title,
             payload.tasks[i].status, ItemNotes(payload.tasks[i]))]

\* Variant of the id rule that counts the tasks.
RemoteTaskStore_new_id_by_count(tasks_raw) == Len(tasks_raw) + 1

\* The id RemoteTaskStore.create_task assigns.
RemoteTaskStore_new_id(tasks_raw) ==
    IF Len(tasks_raw) = 0 THEN 1 ELSE Max(SeqIds(tasks_raw)) + 1

\* RemoteTaskStore.create_task
RemoteTaskStore_create_task(payload, title, status) ==
    LET tasks_raw == payload.tasks
        task == Task(RemoteTaskStore_new_id(tasks_raw), title, status, None)
    IN  [err |-> "", ret |-> Some(task), wrote |-> TRUE,
         bin |-> [payload EXCEPT !.tasks =
                    Append(tasks_raw,
                           [id |-> task.id, title |-> task.title,
                            status |-> task.status])]]

\* Variant of the write-back that rebuilds the item and keeps notes only
\* when the call provides them.
RemoteTaskStore_write_back_drops_notes(item, t, notes) ==
    IF notes # None
    THEN [id |-> item.id, title |-> t.title, status |-> t.status,
          notes |-> notes[1]]
    ELSE [id |-> item.id, title |-> t.title, status |-> t.status]

\* The raw item after RemoteTaskStore.update_task wrote obj back into it.
RemoteTaskStore_write_back(item, t, notes) ==
    LET base == [id |-> item.id, title |-> t.title, status |-> t.status]
    IN  IF notes # None
        THEN [id |-> base.id, title |-> base.title, status |-> base.status,
              notes |-> notes[1]]
        ELSE IF "notes" \in DOMAIN item
             THEN [id |-> base.id, title |-> base.title,
                   status |-> base.status, notes |-> item.notes]
             ELSE base

\* RemoteTaskStore.update_task
RemoteTaskStore_update_task(payload, id, title, status, notes) ==
    LET tasks_raw == payload.tasks
        i == FirstIndex(tasks_raw, id)
    IN  IF i = 0
        THEN [err |-> "NotFound", ret |-> None, wrote |-> FALSE,
              bin |-> payload]
        ELSE LET o0 == Task(tasks_raw[i].id, tasks_raw[i].title,
                            tasks_raw[i].status, ItemNotes(tasks_raw[i]))
                 r1 == IF title # None
                       THEN rename_title(o0, title[1])
                       ELSE [err |-> "", task |-> o0]
                 r2 == IF r1.err = "" /\ status # None
                       THEN change_status(r1.task, status[1])
                       ELSE r1
                 o3 == IF notes # None
                       THEN [r2.task EXCEPT !.notes = notes]
                       ELSE r2.task
             IN  IF r2.err # ""
                 THEN [err |-> r2.err, ret |-> None, wrote |-> FALSE,
                       bin |-> payload]
                 ELSE [err |-> "", ret |-> Some(o3), wrote |-> TRUE,
                       bin |-> [payload EXCEPT !.tasks[i] =
                                  RemoteTaskStore_write_back(
                                      tasks_raw[i], o3, notes)]]

\* Variant of RemoteTaskStore.delete_task without the loop's else branch:
\* a missing id is PUT back silently.
RemoteTaskStore_delete_task_silent(payload, id) ==
    LET i == FirstIndex(payload.tasks, id)
    IN  IF i = 0
        THEN [err |-> "", wrote |-> TRUE, bin |-> payload]
        ELSE [err |-> "", wrote |-> TRUE,
              bin |-> [payload EXCEPT !.tasks = Pop(payload.tasks, i)]]

\* RemoteTaskStore.delete_task: pops the first match, raises when the
\* loop finds none.
RemoteTaskStore_delete_task(payload, id) ==
    LET i == FirstIndex(payload.tasks, id)
    IN  IF i = 0
        THEN [err |-> "NotFound", wrote |-> FALSE, bin |-> payload]
        ELSE [err |-> "", wrote |-> TRUE,
              bin |-> [payload EXCEPT !.tasks = Pop(payload.tasks, i)]]

(***************************************************************************)
(* The store contract as the caller sees it                                *)
(***************************************************************************)
Backends == {"TaskStore", "FileTaskStore", "RemoteTaskStore"}

\* list_all on the configured store.
ListAll ==
    CASE tracker = "TaskStore" -> TaskStore_get_all(tasks)
      [] tracker = "FileTaskStore" -> FileTaskStore_get_all(file)
      [] tracker = "RemoteTaskStore" -> RemoteTaskStore_get_all(bin)

\* Only RemoteTaskStore.update_task has a notes parameter; passing the
\* keyword to the other two is a TypeError raised before the body runs.
AcceptsNotes(backend) == backend = "RemoteTaskStore"

NoCall ==
    [op |-> "init", id |-> 0, title |-> None, status |-> None,
     notes |-> None, kw |-> FALSE, err |-> "", ret |-> None,
     pre |-> <<>>, wrote |-> FALSE, issued |-> {}, freed |-> 0]

Call(op, id, title, status, kw, notes, err, ret, wrote) ==
    [op |-> op, id |-> id, title |-> title, status |-> status,
     notes |-> notes, kw |-> kw, err |-> err, ret |-> ret,
     pre |-> ListAll, wrote |-> wrote, issued |-> issued, freed |-> freed]

\* The callers of the Remote store and of the enrichment service.
Callers == {"A", "B"}

\* The processes that use one FileTaskStore path.
Writers == {"P", "Q"}

NoStoreCall ==
    [op |-> "", id |-> 0, title |-> None, status |-> None, notes |-> None]

\* A caller between two operations.  op is the operation it runs, call the
\* store call in progress, pre the document when that call began, base
\* the payload its GET fetched, r the mutated payload awaiting the PUT,
\* seen the document its PUT replaced, http the requests of the store
\* call, title the argument of create_task_and_enrich, trace the collaborators create_task_and_enrich has called, task
\* and plan its locals, answer what the model endpoint answered, caught
\* the exception it swallowed, out the outcome of the operation.
IdleCaller ==
    [pc |-> "idle", op |-> "", call |-> NoStoreCall, pre |-> None,
     base |-> None, r |-> None, seen |-> None, http |-> <<>>,
     title |-> "", trace |-> <<>>, task |-> None, plan |-> None,
     answer |-> None, caught |-> "", out |-> None]

\* A caller that takes no part in the run.
OffCaller == [IdleCaller EXCEPT !.pc = "off"]

\* A process that is not inside a File store operation.
IdleWriter ==
    [pc |-> "idle", doc |-> [schema_version |-> 1, tasks |-> <<>>],
     fd |-> "", err |-> ""]

OffWriter == [IdleWriter EXCEPT !.pc = "off"]

InitStores ==
    /\ tasks = <<>>
    /\ next_id = 1
    /\ file = [schema_version |-> 1, tasks |-> <<>>]
    /\ bin = [tasks |-> <<>>]
    /\ last = NoCall
    /\ issued = {}
    /\ freed = 0
    /\ tmp = None
    /\ target = None

Init ==
    /\ tracker \in Backends
    /\ InitStores
    /\ obj = None
    /\ obj_err = None
    /\ callers = [c \in Callers |-> OffCaller]
    /\ writers = [w \in Writers |-> OffWriter]

\* create(title, status)
create_task(title, status) ==
    /\ last = NoCall
    /\ freed' = 0
    /\ \/ /\ tracker = "TaskStore"
          /\ next_id <= MaxId
          /\ LET r == TaskStore_create_task(tasks, next_id, title, status)
             IN  /\ tasks' = r.tasks
                 /\ next_id' = r.next_id
                 /\ last' = Call("create", 0, Some(title), Some(status),
                                 FALSE, None, r.err, r.ret, TRUE)
                 /\ issued' = issued \cup {r.ret[1].id}
          /\ UNCHANGED <<file, bin>>
       \/ /\ tracker = "FileTaskStore"
          /\ LET r == FileTaskStore_create_task(file, title, status)
             IN  /\ r.ret[1].id <= MaxId
                 /\ file' = r.file
                 /\ last' = Call("create", 0, Some(title), Some(status),
                                 FALSE, None, r.err, r.ret, r.wrote)
                 /\ issued' = issued \cup {r.ret[1].id}
          /\ UNCHANGED <<tasks, next_id, bin>>
       \/ /\ tracker = "RemoteTaskStore"
          /\ LET r == RemoteTaskStore_create_task(bin, title, status)
             IN  /\ r.ret[1].id <= MaxId
                 /\ bin' = r.bin
                 /\ last' = Call("create", 0, Some(title), Some(status),
                                 FALSE, None, r.err, r.ret, r.wrote)
                 /\ issued' = issued \cup {r.ret[1].id}
          /\ UNCHANGED <<tasks, next_id, file>>
    /\ UNCHANGED <<tracker, obj, obj_err, aux>>

\* update(id, title, status[, notes]); kw tells whether the caller passes
\* the notes keyword at all.
update_task(id, title, status, kw, notes) ==
    /\ last = NoCall
    /\ freed' = 0
    /\ \/ /\ kw /\ ~AcceptsNotes(tracker)
          /\ last' = Call("update", id, title, status, kw, notes,
                          "TypeError", None, FALSE)
          /\ UNCHANGED <<tasks, next_id, file, bin>>
       \/ /\ tracker = "TaskStore"
          /\ ~kw
          /\ LET r == TaskStore_update_task(tasks, id, title, status)
             IN  /\ tasks' = r.tasks
                 /\ last' = Call("update", id, title, status, kw, notes,
                                 r.err, r.ret, r.err = "")
          /\ UNCHANGED <<next_id, file, bin>>
       \/ /\ tracker = "FileTaskStore"
          /\ ~kw
          /\ LET r == FileTaskStore_update_task(file, id, title, status)
             IN  /\ file' = r.file
                 /\ last' = Call("update", id, title, status, kw, notes,
                                 r.err, r.ret, r.wrote)
          /\ UNCHANGED <<tasks, next_id, bin>>
       \/ /\ tracker = "RemoteTaskStore"
          /\ LET r == RemoteTaskStore_update_task(bin, id, title, status,
                                                  notes)
             IN  /\ bin' = r.bin
                 /\ last' = Call("update", id, title, status, kw, notes,
                                 r.err, r.ret, r.wrote)
          /\ UNCHANGED <<tasks, next_id, file>>
    /\ UNCHANGED <<tracker, issued, obj, obj_err, aux>>

\* delete(id)
delete_task(id) ==
    /\ last = NoCall
    /\ freed' = IF ListAll # <<>> /\ id = Max(SeqIds(ListAll)) THEN id ELSE 0
    /\ \/ /\ tracker = "TaskStore"
          /\ LET r == TaskStore_delete_task(tasks, id)
             IN  /\ tasks' = r.tasks
                 /\ last' = Call("delete", id, None, None, FALSE, None,
                                 r.err, None, r.err = "")
          /\ UNCHANGED <<next_id, file, bin>>
       \/ /\ tracker = "FileTaskStore"
          /\ LET r == FileTaskStore_delete_task(file, id)
             IN  /\ file' = r.file
                 /\ last' = Call("delete", id, None, None, FALSE, None,
                                 r.err, None, r.wrote)
          /\ UNCHANGED <<tasks, next_id, bin>>
       \/ /\ tracker = "RemoteTaskStore"
          /\ LET r == RemoteTaskStore_delete_task(bin, id)
             IN  /\ bin' = r.bin
                 /\ last' = Call("delete", id, None, None, FALSE, None,
                                 r.err, None, r.wrote)
          /\ UNCHANGED <<tasks, next_id, file>>
    /\ UNCHANGED <<tracker, issued, obj, obj_err, aux>>

\* dump_all(get_all()) on the File store: the document is read and written
\* back as read.
FileTaskStore_round_trip ==
    /\ last = NoCall
    /\ tracker = "FileTaskStore"
    /\ freed' = 0
    /\ file' = FileTaskStore_dump_all(FileTaskStore_get_all(file))
    /\ last' = Call("round_trip", 0, None, None, FALSE, None, "", None, TRUE)
    /\ UNCHANGED <<tracker, tasks, next_id, bin, issued, obj, obj_err, aux>>

\* The update calls the callers make: title and status are always passed
\* (None when not provided); the notes keyword is passed (kw) exactly in
\* the calls that provide notes.
UpdateCalls ==
    {c \in [id : Ids, title : TitleArgs, status : StatusArgs,
            kw : BOOLEAN, notes : NotesArgs] : c.kw <=> c.notes # None}

\* The caller takes the outcome; it makes its next call only then.
Return ==
    /\ last # NoCall
    /\ last' = NoCall
    /\ UNCHANGED <<tracker, tasks, next_id, file, bin, issued, freed, obj,
                   obj_err, aux>>

Next ==
    \/ Return
    \/ \E title \in CreateTitles, status \in TaskStatus :
          create_task(title, status)
    \/ \E c \in UpdateCalls :
          update_task(c.id, c.title, c.status, c.kw, c.notes)
    \/ \E id \in Ids : delete_task(id)
    \/ FileTaskStore_round_trip

Spec == Init /\ [][Next]_vars

(***************************************************************************)
(* The Task entity on its own: a caller constructs a Task and calls its    *)
(* setters.                                                                *)
(***************************************************************************)
InitTask ==
    /\ tracker = "TaskStore"
    /\ InitStores
    /\ obj \in {Some(Task(id, t, s, n)) :
                  id \in Ids, t \in Titles, s \in TaskStatus, n \in NotesArgs}
    /\ obj_err = None
    /\ callers = [c \in Callers |-> OffCaller]
    /\ writers = [w \in Writers |-> OffWriter]

\* task.rename_title(new_title)
Task_rename_title(new_title) ==
    /\ LET r == rename_title(obj[1], new_title)
       IN  /\ obj' = Some(r.task)
           /\ obj_err' = Some([op |-> "rename_title", arg |-> new_title,
                               err |-> r.err, pre |-> obj[1]])
    /\ UNCHANGED <<tracker, tasks, next_id, file, bin, last, issued, freed,
                   aux>>

\* task.change_status(new_status)
Task_change_status(new_status) ==
    /\ LET r == change_status(obj[1], new_status)
       IN  /\ obj' = Some(r.task)
           /\ obj_err' = Some([op |-> "change_status", arg |-> new_status,
                               err |-> r.err, pre |-> obj[1]])
    /\ UNCHANGED <<tracker, tasks, next_id, file, bin, last, issued, freed,
                   aux>>

NextTask ==
    \/ \E new_title \in Titles : Task_rename_title(new_title)
    \/ \E new_status \in TaskStatus \cup {BadStatus} :
          Task_change_status(new_status)

SpecTask == InitTask /\ [][NextTask]_vars

(***************************************************************************)
(* Vocabulary of the properties                                            *)
(***************************************************************************)
\* Positions of the characters of s that are not whitespace.
Inked(s) == {i \in 1 .. Len(s) : SubSeq(s, i, i) # " "}

\* s without its leading and trailing whitespace.
Trimmed(s) ==
    IF Inked(s) = {} THEN ""
    ELSE SubSeq(s, CHOOSE i \in Inked(s) : \A j \in Inked(s) : i <= j,
                   CHOOSE i \in Inked(s) : \A j \in Inked(s) : j <= i)

\* A title the data model admits: 1 to 50 characters once trimmed.
ValidTitle(s) == Len(Trimmed(s)) >= 1 /\ Len(Trimmed(s)) <= 50

\* The tasks of a listing that carry the given id.
Holding(listing, id) == {i \in DOMAIN listing : listing[i].id = id}

\* The last call was made with arguments the method's signature binds.
SignatureBinds == last.kw => AcceptsNotes(tracker)

(***************************************************************************)
(* Claims                                                                  *)
(***************************************************************************)
Created == last.op = "create" /\ last.err = ""

\* C1 as stated: on the File and the Remote store, create assigns id 1
\* when the document holds no tasks and otherwise the maximum existing id
\* plus one, and a create that directly follows the deletion of the
\* maximum-id task returns the id that was just freed.
C1_FreedIdAlwaysReused ==
    (Created /\ tracker \in {"FileTaskStore", "RemoteTaskStore"}) =>
        LET ids == SeqIds(last.pre)
            nid == last.ret[1].id
        IN  /\ ids = {} => nid = 1
            /\ ids # {} => /\ nid - 1 \in ids
                           /\ \A i \in ids : i < nid
            /\ last.freed # 0 => nid = last.freed

\* C1 amended: on the File and the Remote store, create assigns id 1 when
\* the document holds no tasks and otherwise the maximum existing id plus
\* one; a create that directly follows the deletion of the maximum-id task
\* returns an id no greater than the freed one, and exactly the freed id
\* when the freed id is 1 or the task with the next lower id is still
\* stored.
C1_IdRecomputedFromDocument ==
    (Created /\ tracker \in {"FileTaskStore", "RemoteTaskStore"}) =>
        LET ids == SeqIds(last.pre)
            nid == last.ret[1].id
        IN  /\ ids = {} => nid = 1
            /\ ids # {} => /\ nid - 1 \in ids
                           /\ \A i \in ids : i < nid
            /\ last.freed # 0 =>
                  /\ nid <= last.freed
                  /\ (last.freed = 1 \/ last.freed - 1 \in ids) =>
                        nid = last.freed

\* C1 amended, witness: a create on the File or Remote store, made right after the
\* maximum-id task was deleted while another task stayed, got the freed id.
C1_Witness ==
    /\ Created
    /\ tracker \in {"FileTaskStore", "RemoteTaskStore"}
    /\ last.freed # 0
    /\ last.pre # <<>>
    /\ last.ret[1].id = last.freed
    /\ last.ret[1].id \in last.issued

\* C2: on the In-Memory store every id returned by create is strictly
\* greater than every id an earlier create returned, whatever was deleted
\* in between.
C2_MemoryIdsNeverReused ==
    (Created /\ tracker = "TaskStore") =>
        \A i \in last.issued : last.ret[1].id > i

\* C2 witness: a create on the In-Memory store right after the maximum-id
\* task was deleted returned a larger id than the deleted one.
C2_Witness ==
    /\ Created
    /\ tracker = "TaskStore"
    /\ last.freed # 0
    /\ last.freed \in last.issued
    /\ last.ret[1].id > last.freed

\* C3: after create(title, status) with a valid title, list_all holds
\* exactly one task with the returned id, carrying the trimmed title and
\* the given status; the id was held by no task before the call and every
\* task listed before is still listed unchanged.
C3_CreateThenList ==
    (Created /\ ValidTitle(last.title[1])) =>
        LET nid == last.ret[1].id
            now == ListAll
        IN  /\ Cardinality(Holding(now, nid)) = 1
            /\ \A i \in Holding(now, nid) :
                  /\ now[i].title = Trimmed(last.title[1])
                  /\ now[i].status = last.status[1]
            /\ Holding(last.pre, nid) = {}
            /\ nid > 0
            /\ \A j \in DOMAIN last.pre :
                  \E k \in DOMAIN now : now[k] = last.pre[j]
            /\ Len(now) = Len(last.pre) + 1

\* C3 witness: a create with a padded valid title into a store that
\* already listed a task.
C3_Witness ==
    /\ Created
    /\ ValidTitle(last.title[1])
    /\ last.title[1] # Trimmed(last.title[1])
    /\ last.pre # <<>>
    /\ Holding(ListAll, last.ret[1].id) # {}

\* C4: update with an id that no stored task holds fails with the
\* not-found error on every backend and leaves the stored collection as it
\* was; the File store writes no document, the Remote store issues no PUT.
C4_UpdateMissingId ==
    (last.op = "update" /\ SignatureBinds /\ Holding(last.pre, last.id) = {}) =>
        /\ last.err = "NotFound"
        /\ last.ret = None
        /\ ListAll = last.pre
        /\ ~last.wrote

\* C4 witness: on a store that holds another task, an update that carries
\* a valid title and a status named an id nobody holds.
C4_Witness ==
    /\ last.op = "update"
    /\ SignatureBinds
    /\ last.pre # <<>>
    /\ Holding(last.pre, last.id) = {}
    /\ last.title # None /\ ValidTitle(last.title[1])
    /\ last.status = Some("done")
    /\ last.err = "NotFound"

\* C5: delete with an id that no stored task holds: the File store does
\* not raise and the document read back holds the same tasks; the
\* In-Memory and the Remote store raise the not-found error and keep the
\* collection, the Remote store without a PUT.
C5_DeleteMissingId ==
    (last.op = "delete" /\ Holding(last.pre, last.id) = {}) =>
        /\ ListAll = last.pre
        /\ tracker = "FileTaskStore" => last.err = ""
        /\ tracker # "FileTaskStore" => last.err = "NotFound" /\ ~last.wrote

\* C5 witness: a delete of an absent id on a store that holds a task.
C5_Witness ==
    /\ last.op = "delete"
    /\ last.pre # <<>>
    /\ Holding(last.pre, last.id) = {}
    /\ ListAll = last.pre

\* C6: a successful update changes only the fields provided: without a
\* title the title stays, without a status the status stays, without notes
\* the notes stay; the id and every other stored task stay.
C6_UpdateFrame ==
    (last.op = "update" /\ last.err = "") =>
        LET now == ListAll
        IN  /\ Len(now) = Len(last.pre)
            /\ \A i \in DOMAIN last.pre :
                  IF last.pre[i].id = last.id
                  THEN /\ now[i].id = last.pre[i].id
                       /\ last.title = None =>
                             now[i].title = last.pre[i].title
                       /\ last.status = None =>
                             now[i].status = last.pre[i].status
                       /\ last.notes = None =>
                             now[i].notes = last.pre[i].notes
                  ELSE now[i] = last.pre[i]

\* C6 witness: an update with only a status changed the status of one of
\* two stored tasks.
C6_Witness ==
    /\ last.op = "update" /\ last.err = ""
    /\ last.title = None /\ last.notes = None /\ last.status # None
    /\ Len(last.pre) >= 2
    /\ ListAll # last.pre

\* C6 second case: an update with only a title renamed a task.
C6_WitnessTitleOnly ==
    /\ last.op = "update" /\ last.err = ""
    /\ last.status = None /\ last.notes = None /\ last.title # None
    /\ ListAll # last.pre

\* C7 as stated: on every store, update on an existing id with only notes
\* succeeds, returns the task with those notes, and list_all then shows the
\* task with those notes.
C7_NotesOnEveryStore ==
    (/\ last.op = "update"
     /\ Holding(last.pre, last.id) # {}
     /\ last.title = None /\ last.status = None /\ last.notes # None) =>
        /\ last.err = ""
        /\ last.ret # None
        /\ last.ret[1].notes = last.notes
        /\ \A i \in Holding(ListAll, last.id) :
              ListAll[i].notes = last.notes

\* C8 as stated: every stored task's title is trimmed, non-empty and at
\* most 50 characters long, in every reachable state of every backend.
C8_StoredTitlesValid ==
    \A i \in DOMAIN ListAll :
        /\ ListAll[i].title = Trimmed(ListAll[i].title)
        /\ Len(ListAll[i].title) >= 1
        /\ Len(ListAll[i].title) <= 50

\* C9: rename_title raises the validation error and leaves the task as it
\* was when the trimmed new title is empty or longer than 50 characters;
\* otherwise it sets the title to the trimmed value and changes nothing
\* else.
C9_RenameTitle ==
    (obj_err # None /\ obj_err[1].op = "rename_title") =>
        LET t == Trimmed(obj_err[1].arg)
            before == obj_err[1].pre
        IN  IF t = "" \/ Len(t) > 50
            THEN obj_err[1].err = "Validation" /\ obj[1] = before
            ELSE /\ obj_err[1].err = ""
                 /\ obj[1].title = t
                 /\ obj[1].id = before.id
                 /\ obj[1].status = before.status
                 /\ obj[1].notes = before.notes

\* C9 witness: a padded title of exactly 50 characters once trimmed
\* replaced a different title.
C9_Witness ==
    /\ obj_err # None /\ obj_err[1].op = "rename_title"
    /\ Len(Trimmed(obj_err[1].arg)) = 50
    /\ Len(obj_err[1].arg) > 50
    /\ obj_err[1].err = ""
    /\ obj[1].title # obj_err[1].pre.title

\* C9 second case: a 51-character title was rejected.
C9_WitnessRejected ==
    /\ obj_err # None /\ obj_err[1].op = "rename_title"
    /\ Len(Trimmed(obj_err[1].arg)) = 51
    /\ obj_err[1].err = "Validation"

\* C10 as stated: on every backend, update on an existing id with a
\* provided title that is empty, whitespace-only or longer than 50
\* characters once trimmed fails with the validation error.
C10_InvalidTitleRejected ==
    (/\ last.op = "update" /\ SignatureBinds
     /\ Holding(last.pre, last.id) # {}
     /\ last.title # None /\ ~ValidTitle(last.title[1])) =>
        last.err = "Validation"


\* C11: File store round trip: dump_all(get_all()) followed by get_all
\* returns the tasks the first get_all returned (ids, titles, statuses), in
\* ascending id order.
C11_FileRoundTrip ==
    last.op = "round_trip" =>
        /\ ListAll = last.pre
        /\ \A i \in DOMAIN ListAll : \A j \in DOMAIN ListAll :
              i < j => ListAll[i].id < ListAll[j].id

\* C11 witness: a document of two tasks, one of them renamed by an update,
\* was read, dumped and read again.
C11_Witness ==
    /\ last.op = "round_trip"
    /\ Len(last.pre) = 2
    /\ last.pre[1].title # last.pre[2].title
    /\ ListAll = last.pre

\* C18 as stated: an update on an existing id that ends in the validation
\* error leaves the stored task as it was, on every backend.
C18_FailedUpdateChangesNothing ==
    (/\ last.op = "update" /\ SignatureBinds
     /\ Holding(last.pre, last.id) # {}
     /\ last.err = "Validation") =>
        ListAll = last.pre


(***************************************************************************)
(* The HTTP clients.  A response is what requests.request gave back: sent  *)
(* is FALSE when it raised RequestException instead, status is the status  *)
(* code, parses tells whether the body is JSON, shape names what the JSON  *)
(* holds.                                                                  *)
(***************************************************************************)
\* BaseHTTPClient.request: the error it raises, "" when it returns resp.
BaseHTTPClient_request(resp) ==
    IF resp.sent THEN "" ELSE "RuntimeError"

\* Variant of BaseHTTPClient.json that does not look at the status code.
BaseHTTPClient_json_any_status(resp, expected) ==
    IF ~resp.parses THEN "RuntimeError" ELSE ""

\* BaseHTTPClient.json: the error it raises, "" when it returns the data.
BaseHTTPClient_json(resp, expected) ==
    IF resp.status \notin expected THEN "RuntimeError"
    ELSE IF ~resp.parses THEN "RuntimeError"
    ELSE ""

\* What the bin answers to GET b/{bin_id}/latest: the document ("list"),
\* a document whose tasks field is not a list ("object"), a document
\* without a tasks field ("absent"), or a failure.
GetResponses ==
    {[sent |-> TRUE, status |-> 200, parses |-> TRUE, shape |-> "list"],
     [sent |-> FALSE, status |-> 0, parses |-> FALSE, shape |-> ""],
     [sent |-> TRUE, status |-> 500, parses |-> TRUE, shape |-> "list"],
     [sent |-> TRUE, status |-> 200, parses |-> FALSE, shape |-> ""],
     [sent |-> TRUE, status |-> 200, parses |-> TRUE, shape |-> "object"],
     [sent |-> TRUE, status |-> 200, parses |-> TRUE, shape |-> "absent"]}

GetOk == [sent |-> TRUE, status |-> 200, parses |-> TRUE, shape |-> "list"]

\* What the bin answers to PUT b/{bin_id}; applied tells whether the bin
\* replaced its document.  The bin answers 200 or 201 exactly when it
\* did; a request that raised may have been applied (read timeout).
PutResponses ==
    {[sent |-> TRUE, status |-> 200, parses |-> TRUE, applied |-> TRUE],
     [sent |-> TRUE, status |-> 201, parses |-> TRUE, applied |-> TRUE],
     [sent |-> TRUE, status |-> 500, parses |-> TRUE, applied |-> FALSE],
     [sent |-> FALSE, status |-> 0, parses |-> FALSE, applied |-> FALSE],
     [sent |-> FALSE, status |-> 0, parses |-> FALSE, applied |-> TRUE],
     [sent |-> TRUE, status |-> 200, parses |-> FALSE, applied |-> TRUE]}

PutOk == [sent |-> TRUE, status |-> 200, parses |-> TRUE, applied |-> TRUE]

\* JsonBinClient.fetch_payload on the response to its GET, the bin holding
\* doc: has_tasks tells whether payload["tasks"] exists.
JsonBinClient_fetch_payload(resp, doc) ==
    LET e1 == BaseHTTPClient_request(resp)
        e2 == BaseHTTPClient_json(resp, {200})
    IN  IF e1 # "" THEN [err |-> e1, data |-> None, has_tasks |-> FALSE]
        ELSE IF e2 # "" THEN [err |-> e2, data |-> None, has_tasks |-> FALSE]
        ELSE IF resp.shape = "object"
             THEN [err |-> "RuntimeError", data |-> None,
                   has_tasks |-> FALSE]
        ELSE [err |-> "", data |-> Some(doc),
              has_tasks |-> resp.shape # "absent"]

\* JsonBinClient.push_payload on the response to its PUT: the error it
\* raises, "" when it returns.
JsonBinClient_push_payload(resp) ==
    LET e1 == BaseHTTPClient_request(resp)
    IN  IF e1 # "" THEN e1 ELSE BaseHTTPClient_json(resp, {200, 201})

\* What the model endpoint answers to the POST of the prompt: a result
\* with a response text ("plan"), with a blank text ("blank"), with a null
\* response ("null"), a result without response ("no_response"), no
\* result field ("no_result"), or a failure.
AIResponses ==
    {[sent |-> TRUE, status |-> 200, parses |-> TRUE, shape |-> "plan"],
     [sent |-> TRUE, status |-> 200, parses |-> TRUE, shape |-> "blank"],
     [sent |-> TRUE, status |-> 200, parses |-> TRUE, shape |-> "null"],
     [sent |-> TRUE, status |-> 200, parses |-> TRUE,
      shape |-> "no_response"],
     [sent |-> TRUE, status |-> 200, parses |-> TRUE, shape |-> "no_result"],
     [sent |-> FALSE, status |-> 0, parses |-> FALSE, shape |-> ""],
     [sent |-> TRUE, status |-> 500, parses |-> TRUE, shape |-> "plan"],
     [sent |-> TRUE, status |-> 200, parses |-> FALSE, shape |-> ""]}

AIOk == [sent |-> TRUE, status |-> 200, parses |-> TRUE, shape |-> "plan"]

\* TaskService._build_prompt
TaskService_build_prompt(title) == "Task: '" \o title \o "'."

\* str(result["response"]) for the shapes that have a response; the text
\* of a plan is written for the prompt it answers.
ResponseText(shape, prompt) ==
    CASE shape = "plan" -> " Step 1. " \o prompt \o " "
      [] shape = "blank" -> "  "
      [] shape = "null" -> "None"

\* CloudflareAIClient.generate_plan: the stripped response text, None (the
\* implicit return) when the result has no response.
CloudflareAIClient_generate_plan(resp, prompt) ==
    LET e1 == BaseHTTPClient_request(resp)
        e2 == BaseHTTPClient_json(resp, {200})
    IN  IF e1 # "" THEN [err |-> e1, plan |-> None]
        ELSE IF e2 # "" THEN [err |-> e2, plan |-> None]
        ELSE IF resp.shape \in {"plan", "blank", "null"}
             THEN [err |-> "",
                   plan |-> Some(Strip(ResponseText(resp.shape, prompt)))]
        ELSE [err |-> "", plan |-> None]

\* Variant of the test of the plan: "if plan is not None".
PlanGiven_not_none(plan) == plan # None

\* Python truthiness of the plan: None and "" are false.
PlanGiven(plan) == plan # None /\ plan[1] # ""


(***************************************************************************)
(* The Remote store and the enrichment service, one request at a time.     *)
(* Each caller runs one operation; between two of its requests the other   *)
(* caller may run.                                                         *)
(***************************************************************************)
\* The body of RemoteTaskStore.create_task / update_task / delete_task
\* between fetch_payload and push_payload.
RemoteTaskStore_body(call, payload) ==
    CASE call.op = "create" ->
           RemoteTaskStore_create_task(payload, call.title[1],
                                       call.status[1])
      [] call.op = "update" ->
           RemoteTaskStore_update_task(payload, call.id, call.title,
                                       call.status, call.notes)
      [] call.op = "delete" ->
           LET d == RemoteTaskStore_delete_task(payload, call.id)
           IN  [err |-> d.err, ret |-> None, wrote |-> d.wrote,
                bin |-> d.bin]

\* Variant of create_task_and_enrich that leaves the returned object alone.
TaskService_reflect_nothing(task, plan) == task

\* task.notes = plan on the object create_task returned.
TaskService_reflect(task, plan) == [task EXCEPT !.notes = plan]

\* Variant of the except clause of create_task_and_enrich that re-raises.
TaskService_except_reraise(rec, err) ==
    [rec EXCEPT !.pc = "returned", !.caught = err,
                !.out = Some([err |-> err, ret |-> None])]

\* The except clause of create_task_and_enrich: the exception is printed
\* and the task is returned as it is.
TaskService_except(rec, err) ==
    [rec EXCEPT !.pc = "returned", !.caught = err,
                !.out = Some([err |-> "", ret |-> rec.task])]

\* The store call of caller record rec has ended with err / ret: the
\* operation returns, or create_task_and_enrich goes on.
StoreCallEnd(rec, err, ret) ==
    IF rec.op # "enrich"
    THEN [rec EXCEPT !.pc = "returned",
                     !.out = Some([err |-> err, ret |-> ret])]
    ELSE IF rec.call.op = "create"
    THEN IF err # ""
         THEN [rec EXCEPT !.pc = "returned",
                          !.out = Some([err |-> err, ret |-> None])]
         ELSE [rec EXCEPT !.pc = "ai", !.task = ret]
    ELSE IF err # ""
    THEN TaskService_except(rec, err)
    ELSE LET t == TaskService_reflect(rec.task[1], rec.plan)
         IN  [rec EXCEPT !.pc = "returned",
                         !.out = Some([err |-> "", ret |-> Some(t)])]

\* A store call begins: fetch_payload, then the body up to push_payload.
StoreCallBegin(rec, call, resp, doc) ==
    LET f == JsonBinClient_fetch_payload(resp, doc)
        r0 == [rec EXCEPT !.call = call, !.pre = Some(doc),
                          !.http = <<[method |-> "GET", sent |-> resp.sent,
                                       status |-> resp.status,
                                       err |-> f.err]>>,
                          !.base = None, !.r = None, !.seen = None]
    IN  IF f.err # "" THEN StoreCallEnd(r0, f.err, None)
        ELSE IF ~f.has_tasks
        THEN StoreCallEnd([r0 EXCEPT !.base = f.data], "KeyError", None)
        ELSE LET r == RemoteTaskStore_body(call, f.data[1])
             IN  IF ~r.wrote
                 THEN StoreCallEnd([r0 EXCEPT !.base = f.data], r.err, None)
                 ELSE [r0 EXCEPT !.pc = "put", !.base = f.data,
                                 !.r = Some(r)]

\* push_payload of the store call in progress, the bin holding doc.
StoreCallPut(rec, resp, doc) ==
    LET e == JsonBinClient_push_payload(resp)
        r1 == [rec EXCEPT !.http = Append(@, [method |-> "PUT",
                                              sent |-> resp.sent,
                                              status |-> resp.status,
                                              err |-> e]),
                          !.seen = Some(doc)]
    IN  StoreCallEnd(r1, e, IF e = "" THEN rec.r[1].ret ELSE None)

\* Caller c starts operation op, whose first store call is call: the GET
\* is answered with resp.
Remote_begin(c, op, call, resp) ==
    /\ callers[c].pc = "idle"
    /\ call.op = "create" => RemoteTaskStore_new_id(bin.tasks) <= MaxId
    /\ callers' = [callers EXCEPT ![c] =
          StoreCallBegin([IdleCaller EXCEPT
                             !.op = op,
                             !.title = IF op = "enrich" THEN call.title[1]
                                       ELSE "",
                             !.trace = IF op = "enrich" THEN <<"create">>
                                       ELSE <<>>],
                         call, resp, bin)]
    /\ UNCHANGED <<tracker, tasks, next_id, file, bin, last, issued, freed,
                   obj, obj_err, writers, tmp, target>>

\* Variant of the bin's PUT that keeps the tasks the payload does not name.
Bin_put_merging(doc, payload) ==
    [payload EXCEPT !.tasks =
        SelectSeq(doc.tasks, LAMBDA t : FirstIndex(payload.tasks, t.id) = 0)
        \o payload.tasks]

\* PUT b/{bin_id}: the bin replaces its document with the payload.
Bin_put(doc, payload) == payload

\* The PUT of caller c is answered with resp.
Remote_put(c, resp) ==
    /\ callers[c].pc = "put"
    /\ bin' = IF resp.applied THEN Bin_put(bin, callers[c].r[1].bin) ELSE bin
    /\ callers' = [callers EXCEPT ![c] = StoreCallPut(@, resp, bin)]
    /\ UNCHANGED <<tracker, tasks, next_id, file, last, issued, freed, obj,
                   obj_err, writers, tmp, target>>

\* create_task_and_enrich after create_task returned: generate_plan, the
\* POST answered with resp.
TaskService_generate(c, resp) ==
    /\ callers[c].pc = "ai"
    /\ LET g == CloudflareAIClient_generate_plan(
                   resp, TaskService_build_prompt(callers[c].title))
           r0 == [callers[c] EXCEPT !.trace = Append(@, "ai"),
                                    !.answer = Some(resp)]
       IN  callers' = [callers EXCEPT ![c] =
              IF g.err # ""
              THEN TaskService_except(r0, g.err)
              ELSE IF ~PlanGiven(g.plan)
              THEN [r0 EXCEPT !.pc = "returned", !.plan = g.plan,
                              !.out = Some([err |-> "", ret |-> r0.task])]
              ELSE [r0 EXCEPT !.pc = "upd", !.plan = g.plan]]
    /\ UNCHANGED <<tracker, tasks, next_id, file, bin, last, issued, freed,
                   obj, obj_err, writers, tmp, target>>

\* create_task_and_enrich with a plan: store.update_task(id=task.id,
\* notes=plan), its GET answered with resp.
TaskService_attach(c, resp) ==
    /\ callers[c].pc = "upd"
    /\ LET rec == callers[c]
       IN  callers' = [callers EXCEPT ![c] =
              StoreCallBegin([rec EXCEPT !.trace = Append(@, "update")],
                             [op |-> "update", id |-> rec.task[1].id,
                              title |-> None, status |-> None,
                              notes |-> rec.plan],
                             resp, bin)]
    /\ UNCHANGED <<tracker, tasks, next_id, file, bin, last, issued, freed,
                   obj, obj_err, writers, tmp, target>>

\* Caller c takes the outcome of its operation.
Remote_return(c) ==
    /\ callers[c].pc = "returned"
    /\ callers' = [callers EXCEPT ![c] = IdleCaller]
    /\ UNCHANGED <<tracker, tasks, next_id, file, bin, last, issued, freed,
                   obj, obj_err, writers, tmp, target>>


\* The store calls the callers of the request-level runs make.
CreateCall(title, status) ==
    [op |-> "create", id |-> 0, title |-> Some(title),
     status |-> Some(status), notes |-> None]

StoreCalls ==
    {CreateCall(t, "todo") : t \in {" a ", Pad50}}
    \cup {[op |-> "update", id |-> id, title |-> None,
           status |-> Some("done"), notes |-> None] : id \in Ids}
    \cup {[op |-> "update", id |-> id, title |-> Some(" a "),
           status |-> Some(BadStatus), notes |-> None] : id \in Ids}
    \cup {[op |-> "delete", id |-> id, title |-> None, status |-> None,
           notes |-> None] : id \in Ids}

\* The titles create_task_and_enrich is called with.
EnrichTitles == {" a ", Pad50}

\* One caller, every answer of the two collaborators.
InitService ==
    /\ tracker = "RemoteTaskStore"
    /\ InitStores
    /\ obj = None
    /\ obj_err = None
    /\ callers = [c \in Callers |-> IF c = "A" THEN IdleCaller
                                    ELSE OffCaller]
    /\ writers = [w \in Writers |-> OffWriter]

NextService ==
    \E c \in Callers :
       \/ \E call \in StoreCalls, resp \in GetResponses :
             Remote_begin(c, call.op, call, resp)
       \/ \E t \in EnrichTitles, resp \in GetResponses :
             Remote_begin(c, "enrich", CreateCall(t, "todo"), resp)
       \/ \E resp \in PutResponses : Remote_put(c, resp)
       \/ \E resp \in AIResponses : TaskService_generate(c, resp)
       \/ \E resp \in GetResponses : TaskService_attach(c, resp)
       \/ Remote_return(c)

SpecService == InitService /\ [][NextService]_vars


(***************************************************************************)
(* Properties of the request-level runs                                    *)
(***************************************************************************)
\* The callers that are inside an operation or hold its outcome.
Active == {c \in Callers : callers[c].pc \notin {"off", "idle"}}

\* The store call of rec has ended.
StoreCallEnded(rec) == rec.pc \in {"returned", "ai", "upd"}

\* The error the ended store call of rec raised to its caller ("" when it
\* returned): create_task_and_enrich catches what its update_task raises.
Surfaced(rec) ==
    IF rec.pc \in {"ai", "upd"} THEN ""
    ELSE IF rec.op = "enrich" /\ rec.call.op = "update" THEN rec.caught
    ELSE rec.out[1].err

\* C17: every Remote store call issues one GET first and then at most one
\* PUT, nothing else; a failed GET (network, status other than 200,
\* unparseable body, tasks not a list) ends the call with one error and
\* without a PUT; a PUT answered with a status other than 200/201 ends the
\* call with one error and the remote document is as it was.
C17_RequestProtocol ==
    \A c \in Active :
       LET rec == callers[c]
           n == Len(rec.http)
       IN  /\ n \in {1, 2}
           /\ rec.http[1].method = "GET"
           /\ n = 2 => rec.http[2].method = "PUT" /\ rec.http[1].err = ""
           /\ rec.pc = "put" => n = 1 /\ rec.http[1].err = ""
           /\ (~rec.http[1].sent \/ rec.http[1].status # 200
               \/ rec.http[1].err # "") =>
                 /\ n = 1
                 /\ StoreCallEnded(rec)
                 /\ Surfaced(rec) = "RuntimeError"
                 /\ bin = rec.pre[1]
           /\ (n = 2 /\ rec.http[2].sent
               /\ rec.http[2].status \notin {200, 201}) =>
                 /\ StoreCallEnded(rec)
                 /\ Surfaced(rec) = "RuntimeError"
                 /\ bin = rec.pre[1]
           /\ (StoreCallEnded(rec) /\ Surfaced(rec) = "") => n = 2

\* A PUT of a changed document was answered 500: the call raised and the
\* bin holds what it held.
C17_Witness ==
    \E c \in Active :
       LET rec == callers[c]
       IN  /\ rec.pc = "returned" /\ rec.op = "delete"
           /\ Len(rec.http) = 2
           /\ rec.http[2].sent /\ rec.http[2].status = 500
           /\ rec.out[1].err = "RuntimeError"
           /\ rec.r[1].bin # bin
           /\ bin = rec.pre[1]

\* A GET answered with a tasks field that is not a list: one request, one
\* error.
C17_WitnessGetRejected ==
    \E c \in Active :
       LET rec == callers[c]
       IN  /\ rec.pc = "returned" /\ rec.op = "update"
           /\ Len(rec.http) = 1
           /\ rec.http[1].sent /\ rec.http[1].status = 200
           /\ rec.http[1].err = "RuntimeError"
           /\ bin.tasks # <<>>


\* The enrichment calls in progress or just returned.
Enriching == {c \in Active : callers[c].op = "enrich"}

\* create_task_and_enrich has called the collaborator named who.
Called(rec, who) == \E i \in DOMAIN rec.trace : rec.trace[i] = who

\* C16: create_task_and_enrich calls the store's create first, the AI
\* client only after create returned a task, the store's update only after
\* the AI call; a failed create is raised to the caller with no further
\* call; update is called exactly when the AI answered with a non-empty
\* plan, and a blank text or a missing result / response field gives no
\* update and a task without notes.
C16_EnrichmentOrdering ==
    \A c \in Enriching :
       LET rec == callers[c]
           n == Len(rec.trace)
           done == rec.pc = "returned"
       IN  /\ n \in 1 .. 3
           /\ rec.trace[1] = "create"
           /\ n >= 2 => rec.trace[2] = "ai" /\ rec.task # None
           /\ n = 3 => rec.trace[3] = "update"
           /\ (done /\ rec.task = None) =>
                 rec.out[1].err # "" /\ n = 1
           /\ (done /\ rec.task # None) => rec.out[1].err = "" /\ n >= 2
           /\ Called(rec, "update") =>
                 /\ rec.answer[1].sent /\ rec.answer[1].status = 200
                 /\ rec.answer[1].parses
                 /\ rec.plan # None /\ Len(rec.plan[1]) > 0
           /\ (done /\ rec.plan # None /\ Len(rec.plan[1]) > 0) =>
                 Called(rec, "update")
           /\ (done /\ rec.answer # None
               /\ rec.answer[1].shape \in {"blank", "no_response",
                                           "no_result"}
               /\ rec.answer[1].sent /\ rec.answer[1].status = 200
               /\ rec.answer[1].parses) =>
                 /\ ~Called(rec, "update")
                 /\ rec.out[1].err = ""
                 /\ rec.out[1].ret[1].notes = None

\* The AI answered without a result field: the call returned the task
\* without notes and made no update.
C16_Witness ==
    \E c \in Enriching :
       LET rec == callers[c]
       IN  /\ rec.pc = "returned"
           /\ rec.answer # None /\ rec.answer[1].shape = "no_result"
           /\ rec.trace = <<"create", "ai">>
           /\ rec.out[1].ret # None

\* The create of an enrichment failed: the error reached the caller and
\* the AI client was not called.
C16_WitnessCreateFails ==
    \E c \in Enriching :
       LET rec == callers[c]
       IN  /\ rec.pc = "returned"
           /\ rec.out[1].err = "RuntimeError"
           /\ rec.trace = <<"create">>

\* The AI answered with a plan and update_task was called with it.
C16_WitnessUpdate ==
    \E c \in Enriching :
       LET rec == callers[c]
       IN  /\ rec.pc = "returned"
           /\ rec.trace = <<"create", "ai", "update">>
           /\ rec.plan = Some("Step 1. Task: '" \o rec.title \o "'.")


\* The follow-up update_task of rec was called and raised.
UpdateFailed(rec) ==
    /\ rec.pc = "returned"
    /\ Called(rec, "update")
    /\ ~(Len(rec.http) = 2 /\ rec.http[2].err = "")

\* The generate_plan call of rec raised: network error, status other than
\* 200 or unparseable body.
AIFailed(rec) ==
    /\ rec.answer # None
    /\ \/ ~rec.answer[1].sent
       \/ rec.answer[1].status # 200
       \/ ~rec.answer[1].parses

\* C12: once the store's create has returned a task, create_task_and_enrich
\* returns that task (same id, title and status) and raises nothing; when
\* the AI call or the follow-up update raised, the returned task has no
\* notes and the created task is in the store.
C12_BestEffortEnrichment ==
    \A c \in Enriching :
       LET rec == callers[c]
       IN  (rec.pc = "returned" /\ rec.task # None) =>
              /\ rec.out[1].err = ""
              /\ rec.out[1].ret # None
              /\ rec.out[1].ret[1].id = rec.task[1].id
              /\ rec.out[1].ret[1].title = rec.task[1].title
              /\ rec.out[1].ret[1].status = rec.task[1].status
              /\ (AIFailed(rec) \/ UpdateFailed(rec)) =>
                    /\ rec.out[1].ret[1].notes = None
                    /\ \E i \in Holding(ListAll, rec.task[1].id) :
                          /\ ListAll[i].title = rec.task[1].title
                          /\ ListAll[i].status = rec.task[1].status

\* The PUT of the follow-up update was refused: the task comes back
\* without notes and is in the store.
C12_Witness ==
    \E c \in Enriching :
       LET rec == callers[c]
       IN  /\ UpdateFailed(rec)
           /\ rec.plan = Some("Step 1. Task: '" \o rec.title \o "'.")
           /\ Len(rec.http) = 2 /\ rec.http[2].status = 500
           /\ rec.out[1].err = ""
           /\ rec.out[1].ret[1].notes = None
           /\ Holding(ListAll, rec.task[1].id) # {}

\* The AI call raised: the task comes back without notes.
C12_WitnessAIFails ==
    \E c \in Enriching :
       LET rec == callers[c]
       IN  /\ rec.pc = "returned" /\ AIFailed(rec)
           /\ rec.out[1].err = ""
           /\ rec.out[1].ret[1].notes = None


\* rec has returned from an enrichment whose AI call gave a non-empty plan.
PlanReturned(rec) ==
    /\ rec.pc = "returned"
    /\ rec.task # None
    /\ rec.plan # None /\ Len(rec.plan[1]) > 0

\* The store lists the task created by rec with its title and status and
\* with the plan as notes.
PlanStored(rec) ==
    \E i \in Holding(ListAll, rec.task[1].id) :
       /\ ListAll[i].notes = rec.plan
       /\ ListAll[i].title = rec.task[1].title
       /\ ListAll[i].status = rec.task[1].status

\* C13 as stated: with one caller, whenever the AI client returned a
\* non-empty plan P, the returned task has notes P and list_all shows the
\* created task with notes P and its title and status.
C13_EnrichmentSuccess ==
    \A c \in Enriching :
       LET rec == callers[c]
       IN  PlanReturned(rec) =>
              /\ rec.out[1].ret[1].notes = rec.plan
              /\ PlanStored(rec)

\* C13 amended: the same when, in addition, the follow-up update_task
\* returned without raising.
C13_EnrichmentSuccessWhenUpdateReturns ==
    \A c \in Enriching :
       LET rec == callers[c]
       IN  (PlanReturned(rec) /\ ~UpdateFailed(rec)) =>
              /\ rec.out[1].err = ""
              /\ rec.out[1].ret[1].id = rec.task[1].id
              /\ rec.out[1].ret[1].notes = rec.plan
              /\ PlanStored(rec)

\* An enrichment whose plan reached the returned task and the store.
C13_Witness ==
    \E c \in Enriching :
       LET rec == callers[c]
       IN  /\ PlanReturned(rec) /\ ~UpdateFailed(rec)
           /\ rec.plan = Some("Step 1. Task: '" \o rec.title \o "'.")
           /\ rec.out[1].ret[1].notes = rec.plan
           /\ rec.out[1].ret[1].title = X50
           /\ PlanStored(rec)


(***************************************************************************)
(* Two callers whose requests interleave.                                  *)
(***************************************************************************)
\* The task lists a bin can hold after sequential creates, updates and
\* deletes: ids ascending up to n, titles as create stores them, no notes.
RECURSIVE TaskListsUpTo(_)
TaskListsUpTo(n) ==
    IF n = 0 THEN {<<>>}
    ELSE TaskListsUpTo(n - 1)
         \cup {Append(s, [id |-> n, title |-> Strip(t), status |-> st]) :
                  s \in TaskListsUpTo(n - 1), t \in {" a ", Pad50},
                  st \in {"todo", "done"}}

\* Each caller makes one store call on a bin that holds any of these
\* documents.
InitRace ==
    /\ tracker = "RemoteTaskStore"
    /\ tasks = <<>>
    /\ next_id = 1
    /\ file = [schema_version |-> 1, tasks |-> <<>>]
    /\ bin \in {[tasks |-> s] : s \in TaskListsUpTo(MaxId)}
    /\ last = NoCall
    /\ issued = {}
    /\ freed = 0
    /\ tmp = None
    /\ target = None
    /\ obj = None
    /\ obj_err = None
    /\ callers = [c \in Callers |-> IdleCaller]
    /\ writers = [w \in Writers |-> OffWriter]

NextRace ==
    \E c \in Callers :
       \/ \E call \in StoreCalls, resp \in GetResponses :
             Remote_begin(c, call.op, call, resp)
       \/ \E resp \in PutResponses : Remote_put(c, resp)

SpecRace == InitRace /\ [][NextRace]_vars


\* Callers first and second both fetched the same document, made
\* different store calls that both returned normally after their PUT, the
\* PUT of second replaced the document the PUT of first had written, and
\* the call of first had changed the document.
LostUpdate(first, second) ==
    LET r1 == callers[first]
        r2 == callers[second]
    IN  /\ first # second
        /\ r1.pc = "returned" /\ r2.pc = "returned"
        /\ Len(r1.http) = 2 /\ Len(r2.http) = 2
        /\ r1.out[1].err = "" /\ r2.out[1].err = ""
        /\ r1.base = r2.base
        /\ r1.call # r2.call
        /\ r1.r[1].bin # r1.base[1]
        /\ r2.seen = Some(r1.r[1].bin)

\* C14: when two Remote store calls race as above, the document that
\* remains is the common base with the second writer's change alone.
C14_SecondPutClobbers ==
    \A first \in Callers, second \in Callers :
       LostUpdate(first, second) =>
          bin = RemoteTaskStore_body(callers[second].call,
                                     callers[second].base[1]).bin

\* A create and an update raced: both returned normally, the updated task
\* is in the document and the task the create returned is not.
C14_Witness ==
    \E first \in Callers, second \in Callers :
       /\ LostUpdate(first, second)
       /\ callers[first].call.op = "create"
       /\ callers[second].call.op = "update"
       /\ Holding(bin.tasks, callers[first].out[1].ret[1].id) = {}
       /\ \E i \in Holding(bin.tasks, callers[second].call.id) :
             /\ bin.tasks[i].status = "done"
             /\ callers[second].base[1].tasks[i].status = "todo"

\* C19: the ids of the remote document are positive and pairwise distinct
\* in every state of two interleaved callers, and two creates that both
\* returned the same id have left at most one task with that id.
C19_IdsDistinct ==
    /\ \A i \in DOMAIN bin.tasks : bin.tasks[i].id > 0
    /\ \A i \in DOMAIN bin.tasks : \A j \in DOMAIN bin.tasks :
          i # j => bin.tasks[i].id # bin.tasks[j].id
    /\ \A c1 \in Callers, c2 \in Callers :
          (/\ c1 # c2
           /\ callers[c1].pc = "returned" /\ callers[c2].pc = "returned"
           /\ callers[c1].call.op = "create"
           /\ callers[c2].call.op = "create"
           /\ callers[c1].out[1].err = "" /\ callers[c2].out[1].err = ""
           /\ callers[c1].out[1].ret[1].id = callers[c2].out[1].ret[1].id)
          => Cardinality(Holding(bin.tasks,
                                 callers[c1].out[1].ret[1].id)) <= 1

\* Two creates raced on a document with a task and both returned id 2;
\* the document holds one task with id 2.
C19_Witness ==
    /\ callers["A"].pc = "returned" /\ callers["B"].pc = "returned"
    /\ callers["A"].call.op = "create" /\ callers["B"].call.op = "create"
    /\ callers["A"].out[1].err = "" /\ callers["B"].out[1].err = ""
    /\ callers["A"].out[1].ret[1].id = 2
    /\ callers["B"].out[1].ret[1].id = 2
    /\ callers["A"].out[1].ret[1].title # callers["B"].out[1].ret[1].title
    /\ Cardinality(Holding(bin.tasks, 2)) = 1
    /\ Len(bin.tasks) = 2


(***************************************************************************)
(* An enrichment interleaved with another caller's deletes and creates.    *)
(***************************************************************************)
Enricher == "A"

Other == "B"

\* The calls of the other caller.
OtherCalls ==
    {CreateCall(t, "todo") : t \in {" a ", Pad50}}
    \cup {[op |-> "delete", id |-> id, title |-> None, status |-> None,
           notes |-> None] : id \in Ids}

InitEnrichRace ==
    /\ tracker = "RemoteTaskStore"
    /\ InitStores
    /\ obj = None
    /\ obj_err = None
    /\ callers = [c \in Callers |-> IdleCaller]
    /\ writers = [w \in Writers |-> OffWriter]

\* The store calls themselves do not overlap here: a caller starts one
\* only when the other is not between its GET and its PUT.  The calls of
\* the other caller fall between the store calls and the AI call of the
\* enrichment.
NextEnrichRace ==
    \/ \E t \in EnrichTitles :
          /\ callers[Other].pc # "put"
          /\ Remote_begin(Enricher, "enrich", CreateCall(t, "todo"), GetOk)
    \/ \E call \in OtherCalls :
          /\ callers[Enricher].pc # "put"
          /\ Remote_begin(Other, call.op, call, GetOk)
    \/ \E c \in Callers : Remote_put(c, PutOk)
    \/ TaskService_generate(Enricher, AIOk)
    \/ /\ callers[Other].pc # "put"
       /\ TaskService_attach(Enricher, GetOk)
    \/ Remote_return(Other)

SpecEnrichRace == InitEnrichRace /\ [][NextEnrichRace]_vars

\* The plan the model endpoint writes for an enrichment of title.
PlanFor(title) ==
    Strip(ResponseText("plan", TaskService_build_prompt(title)))

\* C20: the plan generated for the title of an enrichment is in the notes
\* of no task but the one that enrichment created; no call renames a task
\* here, so a task that carries the plan under another title was created
\* by a different call.
C20_NotesOnlyOnOwnTask ==
    \A i \in DOMAIN bin.tasks : \A t \in EnrichTitles :
       ItemNotes(bin.tasks[i]) = Some(PlanFor(t)) =>
          bin.tasks[i].title = Strip(t)


(***************************************************************************)
(* The File store, one file-system step at a time.  A file is its stage    *)
(* (empty, partial, complete or garbled text), the document a complete     *)
(* text encodes and the process that wrote the text so far.  The variable  *)
(* file is the last complete document the path has held; target is the     *)
(* file that os.replace has put at the path.  fd tells where the file a    *)
(* process has open is now: at the temporary path ("tmp"), at the path     *)
(* ("path") or unlinked ("gone").                                          *)
(***************************************************************************)
\* The path holds a complete JSON document.
PathComplete == target = None \/ target[1].stage = "complete"

\* The operations the processes run.
FileCalls ==
    {CreateCall(" a ", "todo")}
    \cup {[op |-> "delete", id |-> id, title |-> None, status |-> None,
           notes |-> None] : id \in Ids}

\* get_all and the body of create_task / delete_task up to dump_all: the
\* document dump_all is to write.
FileTaskStore_body(call, doc) ==
    CASE call.op = "create" ->
           FileTaskStore_create_task(doc, call.title[1], call.status[1]).file
      [] call.op = "delete" ->
           FileTaskStore_delete_task(doc, call.id).file

\* Process w writes a piece of text through its descriptor to content.
Written(content, w, last_piece) ==
    IF content.stage = "empty" /\ ~last_piece
    THEN [content EXCEPT !.stage = "partial", !.owner = w]
    ELSE IF content.stage = "partial" /\ content.owner = w /\ last_piece
    THEN [content EXCEPT !.stage = "complete", !.doc = writers[w].doc]
    ELSE [content EXCEPT !.stage = "garbled"]

\* The effect of a write of process w on the file system.
WriteThrough(w, last_piece) ==
    /\ tmp' = IF writers[w].fd = "tmp"
              THEN Some(Written(tmp[1], w, last_piece)) ELSE tmp
    /\ target' = IF writers[w].fd = "path"
                 THEN Some(Written(target[1], w, last_piece)) ELSE target
    /\ file' = IF writers[w].fd = "path"
                  /\ Written(target[1], w, last_piece).stage = "complete"
               THEN writers[w].doc ELSE file

\* Process w starts create_task or delete_task: get_all reads the path.
File_begin(w, call) ==
    /\ writers[w].pc = "idle"
    /\ PathComplete =>
          (call.op = "create" => FileTaskStore_new_id(
                                    FileTaskStore_get_all(file)) <= MaxId)
    /\ writers' = [writers EXCEPT ![w] =
          IF PathComplete
          THEN [IdleWriter EXCEPT !.pc = "open",
                                  !.doc = FileTaskStore_body(call, file)]
          ELSE [IdleWriter EXCEPT !.pc = "failed",
                                  !.err = "JSONDecodeError"]]
    /\ UNCHANGED <<tracker, tasks, next_id, file, bin, last, issued, freed,
                   obj, obj_err, callers, tmp, target>>

\* dump_all: open(tmp_path, "w") creates the file or truncates the one
\* that is there.
File_open(w) ==
    /\ writers[w].pc = "open"
    /\ tmp' = Some([stage |-> "empty", doc |-> writers[w].doc,
                    owner |-> w])
    /\ writers' = [writers EXCEPT ![w].pc = "write", ![w].fd = "tmp"]
    /\ UNCHANGED <<tracker, tasks, next_id, file, bin, last, issued, freed,
                   obj, obj_err, callers, target>>

\* dump_all: json.dump writes the first part of the text.
File_write(w) ==
    /\ writers[w].pc = "write"
    /\ WriteThrough(w, FALSE)
    /\ writers' = [writers EXCEPT ![w].pc = "flush"]
    /\ UNCHANGED <<tracker, tasks, next_id, bin, last, issued, freed, obj,
                   obj_err, callers>>

\* dump_all: the rest of the text, the newline, flush and close.
File_flush(w) ==
    /\ writers[w].pc = "flush"
    /\ WriteThrough(w, TRUE)
    /\ writers' = [writers EXCEPT ![w].pc = "replace", ![w].fd = ""]
    /\ UNCHANGED <<tracker, tasks, next_id, bin, last, issued, freed, obj,
                   obj_err, callers>>

\* dump_all: os.replace(tmp_path, self.path) moves the file at the
\* temporary path to the path, or raises when there is none.
File_replace(w) ==
    /\ writers[w].pc = "replace"
    /\ IF tmp = None
       THEN /\ writers' = [writers EXCEPT ![w].pc = "failed",
                                          ![w].err = "FileNotFoundError"]
            /\ UNCHANGED <<file, tmp, target>>
       ELSE /\ target' = tmp
            /\ tmp' = None
            /\ file' = IF tmp[1].stage = "complete" THEN tmp[1].doc
                       ELSE file
            /\ writers' = [v \in Writers |->
                  IF v = w THEN [writers[v] EXCEPT !.pc = "done"]
                  ELSE IF writers[v].fd = "tmp"
                  THEN [writers[v] EXCEPT !.fd = "path"]
                  ELSE IF writers[v].fd = "path"
                  THEN [writers[v] EXCEPT !.fd = "gone"]
                  ELSE writers[v]]
    /\ UNCHANGED <<tracker, tasks, next_id, bin, last, issued, freed, obj,
                   obj_err, callers>>

\* Process w dies inside dump_all; its descriptor is closed.
File_crash(w) ==
    /\ writers[w].pc \in {"open", "write", "flush", "replace"}
    /\ writers' = [writers EXCEPT ![w].pc = "crashed", ![w].fd = ""]
    /\ UNCHANGED <<tracker, tasks, next_id, file, bin, last, issued, freed,
                   obj, obj_err, callers, tmp, target>>

\* The operation of w has returned or raised, or w is started again.
File_return(w) ==
    /\ writers[w].pc \in {"done", "failed", "crashed"}
    /\ writers' = [writers EXCEPT ![w] = IdleWriter]
    /\ UNCHANGED <<tracker, tasks, next_id, file, bin, last, issued, freed,
                   obj, obj_err, callers, tmp, target>>

\* One process, or two, on one path.
InitFileWrite ==
    /\ tracker = "FileTaskStore"
    /\ InitStores
    /\ obj = None
    /\ obj_err = None
    /\ callers = [c \in Callers |-> OffCaller]
    /\ writers \in {[w \in Writers |-> IF w = "P" THEN IdleWriter
                                       ELSE q] : q \in {IdleWriter,
                                                        OffWriter}}

NextFileWrite ==
    \E w \in Writers :
       \/ \E call \in FileCalls : File_begin(w, call)
       \/ File_open(w)
       \/ File_write(w)
       \/ File_flush(w)
       \/ File_replace(w)
       \/ File_crash(w)
       \/ File_return(w)

SpecFileWrite == InitFileWrite /\ [][NextFileWrite]_vars

\* C15: while File store writes are in progress and after a crash at any
\* step of dump_all, the path holds a complete document.
C15_TargetAlwaysComplete == PathComplete

\* With one process the path holds a complete document whatever the step
\* at which the process dies.
C15_OneWriterCrashSafe ==
    writers["Q"].pc = "off" => PathComplete

\* The one process died inside dump_all after a first write.
C15_WitnessCrash ==
    /\ writers["Q"].pc = "off"
    /\ writers["P"].pc = "crashed"
    /\ tmp # None /\ tmp[1].stage = "partial"
    /\ file.tasks # <<>>

====
